---- MODULE Spec2Model ----
(***************************************************************************)
(* The trivia API of backend/flaskr/__init__.py: the request handlers that *)
(* create_app registers, the pagination helper and the error handlers,     *)
(* running against the questions and categories tables.                    *)
(*                                                                         *)
(* One action serves one HTTP request from routing to response.  The       *)
(* state is the database (db), the request being served (req), its         *)
(* response (resp), the questions table as it was when the request         *)
(* arrived (before), the ids questions have held up to then (ever_held)   *)
(* and the number of requests served so far.                               *)
(***************************************************************************)
EXTENDS Integers, Sequences, FiniteSets, TLC

\* Program constant.
QUESTIONS_PER_PAGE == 10

\* Bounds of the model.
MaxSeeded   == 11   \* rows of the largest seeded questions table
MaxRequests == 3    \* requests served in one run
MaxPage     == 2    \* largest ?page= value a request carries

(***************************************************************************)
(* Python values.  An optional value is None or Some(v); a str is a        *)
(* sequence of one-character strings.                                      *)
(***************************************************************************)
None == <<>>
Some(v) == <<v>>
Get(opt) == opt[1]

Range(s) == {s[i] : i \in DOMAIN s}

\* str.lower() on the alphabet the model uses
Lower(c) == CASE c = "A" -> "a" [] c = "B" -> "b" [] c = "C" -> "c"
              [] c = "Z" -> "z" [] OTHER -> c
LowerStr(s) == [i \in DOMAIN s |-> Lower(s[i])]

\* list[start:end] with Python's clamping of negative and oversized bounds
PySlice(s, start, end) ==
    LET n == Len(s)
        norm(x) == IF x < 0 THEN (IF x + n < 0 THEN 0 ELSE x + n)
                   ELSE (IF x > n THEN n ELSE x)
        lo == norm(start)
        hi == norm(end)
    IN IF lo >= hi THEN <<>> ELSE SubSeq(s, lo + 1, hi)

(***************************************************************************)
(* The store: the queries and row operations of models.py / SQLAlchemy     *)
(* that the handlers call.                                                 *)
(***************************************************************************)
\* Category rows of a provisioned database; type strings in alphabetical order
CategoryTypes == <<"Art", "Science">>
TypeRank(t) == CHOOSE i \in DOMAIN CategoryTypes : CategoryTypes[i] = t
CategoryRows == << [id |-> 1, type |-> "Science"], [id |-> 2, type |-> "Art"] >>

\* Seeded question rows: categories 1 and 2 exist, 3 is an orphaned reference
SeedRow(i) ==
    [id |-> i,
     question |-> IF i % 2 = 1 THEN <<"A", "b">> ELSE <<"b", "C">>,
     answer |-> "yes",
     category |-> (i % 3) + 1,
     difficulty |-> 1]
Seeded(n) == [i \in 1..n |-> SeedRow(i)]

\* query.all(): the rows in table order.  Rows are appended with increasing
\* ids and never updated, so table order is insertion order.
all(rows) == rows

\* query.order_by(column): stable ascending sort of rows on keys, the
\* sequence of the rows' column values
order_by(rows, keys) ==
    LET n == Len(rows)
        rank(i) == 1 + Cardinality({j \in 1..n :
                        \/ keys[j] < keys[i]
                        \/ (keys[j] = keys[i] /\ j < i)})
    IN [p \in 1..n |-> rows[CHOOSE i \in 1..n : rank(i) = p]]

\* Question.query.order_by(Question.id)
order_by_id(rows) == order_by(rows, [i \in DOMAIN rows |-> rows[i].id])

\* Category.query.order_by(Category.type)
order_by_type(rows) ==
    order_by(rows, [i \in DOMAIN rows |-> TypeRank(rows[i].type)])

\* The rows whose id column equals id
filter_by_id(rows, id) == SelectSeq(rows, LAMBDA r : r.id = id)

\* The questions whose category column equals category_id
filter_by_category(rows, category_id) ==
    SelectSeq(rows, LAMBDA q : q.category = category_id)

\* query.one_or_none() on a primary-key filter
one_or_none(rows) == IF Len(rows) = 0 THEN None ELSE Some(rows[1])

\* Question.question.ilike('%term%')
ilike(text, term) ==
    LET t == LowerStr(text)
        s == LowerStr(term)
    IN \E i \in 0..(Len(t) - Len(s)) : SubSeq(t, i + 1, i + Len(s)) = s

\* The questions whose text matches '%search_term%'
filter_ilike(rows, search_term) ==
    SelectSeq(rows, LAMBDA q : ilike(q.question, search_term))

\* Question.insert(): the row gets the next value of the id sequence
insert(db, fields) ==
    [db EXCEPT !.questions = Append(@, [id |-> db.id_seq,
                                        question |-> fields.question,
                                        answer |-> fields.answer,
                                        category |-> fields.category,
                                        difficulty |-> fields.difficulty]),
               !.id_seq = @ + 1]

\* Question.delete()
delete(db, row) ==
    [db EXCEPT !.questions = SelectSeq(@, LAMBDA r : r.id # row.id)]

\* Question.format()
format(q) ==
    [id |-> q.id, question |-> q.question, answer |-> q.answer,
     category |-> q.category, difficulty |-> q.difficulty]

(***************************************************************************)
(* paginate_questions                                                      *)
(***************************************************************************)
\* request.args.get('page', 1, type=int)
page_arg(args) == IF args.page = None THEN 1 ELSE Get(args.page)

\* Mutant: the window starts at page * QUESTIONS_PER_PAGE
paginate_questions_StartAtPage(args, selection) ==
    LET page == page_arg(args)
        start == page * QUESTIONS_PER_PAGE
        end == start + QUESTIONS_PER_PAGE
        questions == [i \in DOMAIN selection |-> format(selection[i])]
    IN PySlice(questions, start, end)

paginate_questions(args, selection) ==
    LET page == page_arg(args)
        start == (page - 1) * QUESTIONS_PER_PAGE
        end == start + QUESTIONS_PER_PAGE
        questions == [i \in DOMAIN selection |-> format(selection[i])]
    IN PySlice(questions, start, end)

(***************************************************************************)
(* Control flow of a view function: it returns a JSON body or raises.      *)
(* abort(code) raises an HTTPException; a failing store call raises a      *)
(* StoreError.  fault is the number of the store call of the handler that  *)
(* fails, 0 when none does.                                                *)
(***************************************************************************)
Return(d, body) == [kind |-> "return", db |-> d, body |-> body]
Raise(d, exc) == [kind |-> "raise", db |-> d, exc |-> exc]
abort(code) == [type |-> "HTTPException", code |-> code]
StoreError == [type |-> "StoreError", code |-> 500]

\* {category.id: category.type for category in categories}
category_dict(cats) ==
    [i \in {cats[k].id : k \in DOMAIN cats} |->
        (CHOOSE c \in Range(cats) : c.id = i).type]

\* GET /categories
retrieve_categories(d, fault) ==
    IF fault = 1 THEN Raise(d, StoreError)
    ELSE LET categories == all(order_by_type(d.categories))
         IN IF Len(categories) = 0 THEN Raise(d, abort(404))
            ELSE Return(d, [success |-> TRUE,
                            categories |-> category_dict(categories)])

\* GET /questions
retrieve_questions(d, args, fault) ==
    IF fault \in {1, 2} THEN Raise(d, StoreError)
    ELSE LET selection == all(order_by_id(d.questions))
             current_questions == paginate_questions(args, selection)
             categories == all(order_by_type(d.categories))
         IN IF Len(current_questions) = 0 THEN Raise(d, abort(404))
            ELSE IF fault = 3 THEN Raise(d, StoreError)
            ELSE Return(d, [success |-> TRUE,
                            questions |-> current_questions,
                            total_questions |-> Len(all(d.questions)),
                            categories |-> category_dict(categories),
                            current_category |-> None])

\* Mutant: question.delete() is never called
delete_question_NoDelete(d, question_id, args, fault) ==
    LET try ==
          IF fault = 1 THEN Raise(d, StoreError)
          ELSE
            LET question == one_or_none(
                    filter_by_id(d.questions, question_id))
            IN IF question = None THEN Raise(d, abort(404))
               ELSE IF fault = 2 THEN Raise(d, StoreError)
               ELSE
                 LET selection == all(order_by_id(d.questions))
                     current_questions == paginate_questions(args, selection)
                 IN IF fault \in {3, 4} THEN Raise(d, StoreError)
                    ELSE Return(d, [success |-> TRUE,
                                    deleted |-> question_id,
                                    questions |-> current_questions,
                                    total_questions |-> Len(all(d.questions))])
    IN IF try.kind = "raise" THEN Raise(try.db, abort(422)) ELSE try

\* Mutant: the except clause catches store errors only, so the HTTPException
\* of abort(404) leaves the handler
delete_question_NotFoundEscapes(d, question_id, args, fault) ==
    LET try ==
          IF fault = 1 THEN Raise(d, StoreError)
          ELSE
            LET question == one_or_none(
                    filter_by_id(d.questions, question_id))
            IN IF question = None THEN Raise(d, abort(404))
               ELSE IF fault = 2 THEN Raise(d, StoreError)
               ELSE
                 LET d1 == delete(d, Get(question))
                     selection == all(order_by_id(d1.questions))
                     current_questions == paginate_questions(args, selection)
                 IN IF fault \in {3, 4} THEN Raise(d1, StoreError)
                    ELSE Return(d1, [success |-> TRUE,
                                     deleted |-> question_id,
                                     questions |-> current_questions,
                                     total_questions |-> Len(all(d1.questions))])
    IN IF try.kind = "raise" /\ try.exc.type = "StoreError"
       THEN Raise(try.db, abort(422)) ELSE try

\* DELETE /questions/<int:question_id>; the bare except catches whatever the
\* try block raises, the HTTPException of abort(404) included
delete_question(d, question_id, args, fault) ==
    LET try ==
          IF fault = 1 THEN Raise(d, StoreError)
          ELSE
            LET question == one_or_none(
                    filter_by_id(d.questions, question_id))
            IN IF question = None THEN Raise(d, abort(404))
               ELSE IF fault = 2 THEN Raise(d, StoreError)
               ELSE
                 LET d1 == delete(d, Get(question))
                     selection == all(order_by_id(d1.questions))
                     current_questions == paginate_questions(args, selection)
                 IN IF fault \in {3, 4} THEN Raise(d1, StoreError)
                    ELSE Return(d1, [success |-> TRUE,
                                     deleted |-> question_id,
                                     questions |-> current_questions,
                                     total_questions |-> Len(all(d1.questions))])
    IN IF try.kind = "raise" THEN Raise(try.db, abort(422)) ELSE try

\* Mutant: the validation tests truthiness instead of "is None", so '' and 0
\* are refused
create_question_FalsyRejected(d, args, body, fault) ==
    LET new_question == body.question
        new_answer == body.answer
        new_difficulty == body.difficulty
        new_category == body.category
    IN
    IF \/ new_answer = None \/ new_category = None
       \/ new_difficulty = None \/ new_difficulty = Some(0)
       \/ new_question = None \/ new_question = Some(<<>>)
    THEN Raise(d, abort(422))
    ELSE
      LET try ==
            IF fault = 1 THEN Raise(d, StoreError)
            ELSE
              LET d1 == insert(d, [question |-> Get(new_question),
                                   answer |-> Get(new_answer),
                                   difficulty |-> Get(new_difficulty),
                                   category |-> Get(new_category)])
                  question == d1.questions[Len(d1.questions)]
                  selection == all(order_by_id(d1.questions))
                  current_questions == paginate_questions(args, selection)
              IN IF fault \in {2, 3} THEN Raise(d1, StoreError)
                 ELSE Return(d1, [success |-> TRUE,
                                  created |-> question.id,
                                  questions |-> current_questions,
                                  total_questions |-> Len(all(d1.questions))])
      IN IF try.kind = "raise" THEN Raise(try.db, abort(422)) ELSE try

\* Mutant: the validation leaves out new_difficulty; a missing difficulty is
\* stored as 0
create_question_DifficultyUnchecked(d, args, body, fault) ==
    LET new_question == body.question
        new_answer == body.answer
        new_difficulty == body.difficulty
        new_category == body.category
    IN
    IF \/ new_answer = None \/ new_category = None \/ new_question = None
    THEN Raise(d, abort(422))
    ELSE
      LET try ==
            IF fault = 1 THEN Raise(d, StoreError)
            ELSE
              LET d1 == insert(d, [question |-> Get(new_question),
                                   answer |-> Get(new_answer),
                                   difficulty |-> IF new_difficulty = None THEN 0
                                                  ELSE Get(new_difficulty),
                                   category |-> Get(new_category)])
                  question == d1.questions[Len(d1.questions)]
                  selection == all(order_by_id(d1.questions))
                  current_questions == paginate_questions(args, selection)
              IN IF fault \in {2, 3} THEN Raise(d1, StoreError)
                 ELSE Return(d1, [success |-> TRUE,
                                  created |-> question.id,
                                  questions |-> current_questions,
                                  total_questions |-> Len(all(d1.questions))])
      IN IF try.kind = "raise" THEN Raise(try.db, abort(422)) ELSE try

\* POST /questions
create_question(d, args, body, fault) ==
    LET new_question == body.question
        new_answer == body.answer
        new_difficulty == body.difficulty
        new_category == body.category
    IN
    IF \/ new_answer = None \/ new_category = None
       \/ new_difficulty = None \/ new_question = None
    THEN Raise(d, abort(422))
    ELSE
      LET try ==
            IF fault = 1 THEN Raise(d, StoreError)
            ELSE
              LET d1 == insert(d, [question |-> Get(new_question),
                                   answer |-> Get(new_answer),
                                   difficulty |-> Get(new_difficulty),
                                   category |-> Get(new_category)])
                  question == d1.questions[Len(d1.questions)]
                  selection == all(order_by_id(d1.questions))
                  current_questions == paginate_questions(args, selection)
              IN IF fault \in {2, 3} THEN Raise(d1, StoreError)
                 ELSE Return(d1, [success |-> TRUE,
                                  created |-> question.id,
                                  questions |-> current_questions,
                                  total_questions |-> Len(all(d1.questions))])
      IN IF try.kind = "raise" THEN Raise(try.db, abort(422)) ELSE try

\* if (body.get('searchTerm')): None and '' are falsy
truthy(opt) == opt # None /\ Get(opt) # <<>>

\* POST /questions/search
search_questions(d, args, body, fault) ==
    IF truthy(body.searchTerm) THEN
      IF fault = 1 THEN Raise(d, StoreError)
      ELSE
        LET search_term == Get(body.searchTerm)
            selection == all(filter_ilike(d.questions, search_term))
        IN IF Len(selection) = 0 THEN Raise(d, abort(404))
           ELSE Return(d, [success |-> TRUE,
                           questions |-> paginate_questions(args, selection),
                           total_questions |-> Len(selection),
                           current_category |-> None])
    ELSE Raise(d, abort(400))

\* Mutant: the selection is not filtered by category
retrieve_questions_by_category_NoFilter(d, category_id, args, fault) ==
    IF fault = 1 THEN Raise(d, StoreError)
    ELSE
      LET category == one_or_none(
              filter_by_id(d.categories, category_id))
      IN IF category = None THEN Raise(d, abort(404))
         ELSE IF fault \in {2, 3} THEN Raise(d, StoreError)
         ELSE
           LET selection == all(d.questions)
               paginated_selection == paginate_questions(args, selection)
           IN Return(d, [success |-> TRUE,
                         questions |-> paginated_selection,
                         total_questions |-> Len(all(d.questions)),
                         current_category |-> Get(category).type])

\* GET /categories/<int:category_id>/questions
retrieve_questions_by_category(d, category_id, args, fault) ==
    IF fault = 1 THEN Raise(d, StoreError)
    ELSE
      LET category == one_or_none(
              filter_by_id(d.categories, category_id))
      IN IF category = None THEN Raise(d, abort(404))
         ELSE IF fault \in {2, 3} THEN Raise(d, StoreError)
         ELSE
           LET selection == all(filter_by_category(d.questions, category_id))
               paginated_selection == paginate_questions(args, selection)
           IN Return(d, [success |-> TRUE,
                         questions |-> paginated_selection,
                         total_questions |-> Len(all(d.questions)),
                         current_category |-> Get(category).type])

(***************************************************************************)
(* Routing and error handling of the Flask application.                    *)
(***************************************************************************)
\* The rules the @app.route decorators register, each with its methods
url_map ==
    { [rule |-> "/categories", methods |-> {"GET"}],
      [rule |-> "/questions", methods |-> {"GET", "POST"}],
      [rule |-> "/questions/<int:question_id>", methods |-> {"DELETE"}],
      [rule |-> "/questions/search", methods |-> {"POST"}],
      [rule |-> "/categories/<int:category_id>/questions", methods |-> {"GET"}] }

\* The codes that have an @app.errorhandler
error_handlers ==
    [c \in {404, 422, 405} |->
        CASE c = 404 -> "Resource not found"
          [] c = 422 -> "unprocessable"
          [] c = 405 -> "method not allowed"]

\* The response to an exception that leaves the view function: the registered
\* handler's JSON body, or else the framework's own HTML error page
handle_exception(exc) ==
    IF exc.type = "HTTPException" /\ exc.code \in DOMAIN error_handlers
    THEN [status |-> exc.code,
          body |-> [success |-> FALSE, error |-> exc.code,
                    message |-> error_handlers[exc.code]]]
    ELSE [status |-> exc.code,
          body |-> [html |-> IF exc.code = 400 THEN "Bad Request"
                             ELSE "Internal Server Error"]]

\* jsonify(...) of a returned body, or the handling of what was raised
make_response(o) ==
    IF o.kind = "return" THEN [status |-> 200, body |-> o.body]
    ELSE handle_exception(o.exc)

\* Match the request against url_map and run the view function
full_dispatch_request(d, r, fault) ==
    LET rules == {u \in url_map : u.rule = r.path}
    IN IF rules = {} THEN Raise(d, abort(404))
       ELSE IF \A u \in rules : r.method \notin u.methods
            THEN Raise(d, abort(405))
       ELSE CASE r.path = "/categories" -> retrieve_categories(d, fault)
              [] r.path = "/questions" /\ r.method = "GET" ->
                    retrieve_questions(d, r.args, fault)
              [] r.path = "/questions" /\ r.method = "POST" ->
                    create_question(d, r.args, r.json, fault)
              [] r.path = "/questions/<int:question_id>" ->
                    delete_question(d, r.id, r.args, fault)
              [] r.path = "/questions/search" ->
                    search_questions(d, r.args, r.json, fault)
              [] r.path = "/categories/<int:category_id>/questions" ->
                    retrieve_questions_by_category(d, r.id, r.args, fault)

(***************************************************************************)
(* The state machine                                                       *)
(***************************************************************************)
VARIABLES db, req, resp, before, ever_held, served
vars == <<db, req, resp, before, ever_held, served>>

Ids(rows) == {rows[i].id : i \in DOMAIN rows}

\* Inputs
PageArgs == {None} \cup {Some(p) : p \in 0..MaxPage}
MutatorPageArgs == {None, Some(2)}
QuestionIds == {1, 6, MaxSeeded, MaxSeeded + 1, MaxSeeded + 2}
CategoryIds == 1..3
FullBody ==
    [question |-> Some(<<"Z", "a">>), answer |-> Some("no"),
     difficulty |-> Some(0), category |-> Some(1)]
CreateBodies ==
    {FullBody, [FullBody EXCEPT !.category = Some(3)],
     [FullBody EXCEPT !.question = Some(<<>>)]}
    \cup {[FullBody EXCEPT ![f] = None] : f \in DOMAIN FullBody}
    \cup {[f \in DOMAIN FullBody |-> None]}
SearchTerms == {None, Some(<<>>), Some(<<"a">>), Some(<<"B", "c">>), Some(<<"q">>)}
Previous == {<<>>, <<1, 2>>}
Faults == 1..4

Request(method, path, id, page, json) ==
    [method |-> method, path |-> path, id |-> id,
     args |-> [page |-> page], json |-> json]

Init ==
    /\ \/ db = [questions |-> <<>>, categories |-> <<>>, id_seq |-> 1]
       \/ \E n \in {0, 3, MaxSeeded} :
             db = [questions |-> Seeded(n), categories |-> CategoryRows,
                   id_seq |-> n + 1]
    /\ req = None
    /\ resp = None
    /\ before = db.questions
    /\ ever_held = Ids(db.questions)
    /\ served = 0

Serve(r, fault) ==
    /\ LET o == full_dispatch_request(db, r, fault)
       IN /\ db' = o.db
          /\ resp' = make_response(o)
    /\ req' = r
    /\ before' = db.questions
    /\ ever_held' = ever_held \cup Ids(db.questions)
    /\ served' = served + 1

RetrieveCategories(fault) ==
    /\ served < MaxRequests
    /\ Serve(Request("GET", "/categories", None, None, None), fault)

RetrieveQuestions(fault) ==
    /\ served < MaxRequests
    /\ \E page \in PageArgs :
          Serve(Request("GET", "/questions", None, page, None), fault)

DeleteQuestion(fault) ==
    /\ served < MaxRequests
    /\ \E id \in QuestionIds, page \in MutatorPageArgs :
          Serve(Request("DELETE", "/questions/<int:question_id>",
                        id, page, None), fault)

CreateQuestion(fault) ==
    /\ served < MaxRequests
    /\ \E body \in CreateBodies, page \in MutatorPageArgs :
          Serve(Request("POST", "/questions", None, page, body), fault)

SearchQuestions(fault) ==
    /\ served < MaxRequests
    /\ \E term \in SearchTerms, page \in MutatorPageArgs :
          Serve(Request("POST", "/questions/search", None, page,
                        [searchTerm |-> term]), fault)

RetrieveQuestionsByCategory(fault) ==
    /\ served < MaxRequests
    /\ \E id \in CategoryIds, page \in MutatorPageArgs :
          Serve(Request("GET", "/categories/<int:category_id>/questions",
                        id, page, None), fault)

\* POST /quizzes: the request of test_play_quiz
PlayQuiz(fault) ==
    /\ served < MaxRequests
    /\ \E prev \in Previous, c \in 0..1 :
          Serve(Request("POST", "/quizzes", None, None,
                        [previous_questions |-> prev,
                         quiz_category |-> [id |-> c]]), fault)

\* A registered rule requested with a method none of its routes lists
WrongMethod(fault) ==
    /\ served < MaxRequests
    /\ \E u \in url_map, m \in {"GET", "POST", "DELETE"} :
          /\ \A v \in url_map : v.rule = u.rule => m \notin v.methods
          /\ Serve(Request(m, u.rule, 1, None, None), fault)

Handlers(fault) ==
    \/ RetrieveCategories(fault)
    \/ RetrieveQuestions(fault)
    \/ DeleteQuestion(fault)
    \/ CreateQuestion(fault)
    \/ SearchQuestions(fault)
    \/ RetrieveQuestionsByCategory(fault)
    \/ PlayQuiz(fault)
    \/ WrongMethod(fault)

\* Every store call succeeds
Next == Handlers(0)
Spec == Init /\ [][Next]_vars

\* Any one store call of a request may fail
NextFault == \E fault \in Faults \cup {0} : Handlers(fault)
SpecFault == Init /\ [][NextFault]_vars

(***************************************************************************)
(* Properties                                                              *)
(***************************************************************************)
\* The request just served, by method and rule
Served(method, path) ==
    served > 0 /\ req.method = method /\ req.path = path

\* The uniform JSON error body with the given code and message
ErrorBody(code, message) ==
    [success |-> FALSE, error |-> code, message |-> message]

IsJsonError(code) ==
    /\ resp.status = code
    /\ DOMAIN resp.body = {"success", "error", "message"}
    /\ resp.body.success = FALSE
    /\ resp.body.error = code

IsSuccess ==
    /\ resp.status = 200
    /\ "success" \in DOMAIN resp.body
    /\ resp.body.success = TRUE

DeleteServed == Served("DELETE", "/questions/<int:question_id>")
CreateServed == Served("POST", "/questions")
AllFieldsPresent == \A f \in DOMAIN req.json : req.json[f] # None

\* C1: deleting the id of a stored question succeeds with deleted = id; after
\* it no row has that id, the table has exactly one row less, the reported
\* total is that count, and every other row is still stored.
C1_DeleteRemovesExactlyThatQuestion ==
    (DeleteServed /\ req.id \in Ids(before)) =>
        /\ IsSuccess
        /\ resp.body.deleted = req.id
        /\ \A i \in DOMAIN db.questions : db.questions[i].id # req.id
        /\ Len(db.questions) = Len(before) - 1
        /\ resp.body.total_questions = Len(before) - 1
        /\ \A i \in DOMAIN before :
              before[i].id # req.id => before[i] \in Range(db.questions)

C1_Witness ==
    /\ DeleteServed
    /\ req.id \in Ids(before)
    /\ Len(before) > 1
    /\ resp.status = 200
    /\ resp.body.deleted = req.id

\* C2: deleting an id no stored question has answers 422 with the message
\* 'unprocessable', not 404, and the number of questions stays the same.
C2_DeleteNonexistentIsUnprocessable ==
    (DeleteServed /\ req.id \notin Ids(before)) =>
        /\ resp.status = 422
        /\ resp.body = ErrorBody(422, "unprocessable")
        /\ Len(db.questions) = Len(before)

C2_Witness ==
    /\ DeleteServed
    /\ req.id \notin Ids(before)
    /\ Len(before) > 0
    /\ resp.status = 422

\* C3 as stated: when the lookup finds no question, the delete request is
\* answered NotFound (404).
C3_LookupNotFoundAnswers404 ==
    (DeleteServed /\ req.id \notin Ids(before)) =>
        /\ resp.status = 404
        /\ resp.body = ErrorBody(404, "Resource not found")

\* C3 amended: the NotFound raised when the lookup finds no question is caught
\* by the handler's own except clause; a delete request is answered 200 or
\* 422, never 404, and (no store call failing) 422 exactly when no stored
\* question has the id.
C3_LookupNotFoundIsCaught ==
    DeleteServed =>
        /\ resp.status \in {200, 422}
        /\ resp.status # 404
        /\ (resp.status = 422 <=> req.id \notin Ids(before))

C3_Witness ==
    /\ DeleteServed
    /\ req.id \notin Ids(before)
    /\ resp.body = ErrorBody(422, "unprocessable")

\* C4: creating a question with all four fields non-null succeeds, adds
\* exactly one row, and returns in 'created' the id of the new row, an id no
\* question held before the request, deleted questions included.
C4_CreateAddsOneWithFreshId ==
    (CreateServed /\ AllFieldsPresent) =>
        /\ IsSuccess
        /\ Len(db.questions) = Len(before) + 1
        /\ resp.body.total_questions = Len(before) + 1
        /\ resp.body.created \in Ids(db.questions)
        /\ resp.body.created \notin Ids(before)
        /\ resp.body.created \notin ever_held
        /\ \A i \in DOMAIN before : before[i] \in Range(db.questions)

\* a create after a delete, with a falsy but non-null field
C4_Witness ==
    /\ CreateServed
    /\ AllFieldsPresent
    /\ resp.status = 200
    /\ ever_held \ Ids(before) # {}
    /\ req.json.difficulty = Some(0)

\* C5: creating a question with a field absent or null answers 422 and
\* leaves the stored questions as they were.
C5_CreateMissingFieldIsUnprocessable ==
    (CreateServed /\ ~AllFieldsPresent) =>
        /\ resp.status = 422
        /\ resp.body = ErrorBody(422, "unprocessable")
        /\ db.questions = before

C5_Witness ==
    /\ CreateServed
    /\ Cardinality({f \in DOMAIN req.json : req.json[f] = None}) = 1
    /\ Len(before) > 0
    /\ resp.status = 422

\* C6: with n questions stored and page p >= 1, GET /questions answers 404
\* exactly when (p-1)*10 >= n; otherwise it succeeds with the questions at
\* positions (p-1)*10 .. min(p*10, n)-1 of the id-ascending list, at most 10,
\* and total_questions = n.
C6_ListPage ==
    (Served("GET", "/questions") /\ page_arg(req.args) >= 1) =>
        LET p == page_arg(req.args)
            n == Len(before)
            first == (p - 1) * 10
            last == IF p * 10 < n THEN p * 10 ELSE n
        IN /\ resp.status \in {200, 404}
           /\ (resp.status = 404 <=> first >= n)
           /\ resp.status = 404 => resp.body = ErrorBody(404, "Resource not found")
           /\ resp.status = 200 =>
                /\ resp.body.success = TRUE
                /\ resp.body.total_questions = n
                /\ Len(resp.body.questions) = last - first
                /\ Len(resp.body.questions) <= 10
                /\ \A i \in DOMAIN resp.body.questions :
                      LET q == resp.body.questions[i]
                      IN /\ \E k \in DOMAIN before :
                               /\ before[k].id = q.id
                               /\ before[k].question = q.question
                               /\ before[k].answer = q.answer
                               /\ before[k].category = q.category
                               /\ before[k].difficulty = q.difficulty
                         /\ Cardinality({k \in DOMAIN before :
                               before[k].id < q.id}) = first + i - 1

\* the second page of more than ten questions
C6_Witness ==
    /\ Served("GET", "/questions")
    /\ page_arg(req.args) = 2
    /\ Len(before) > 10
    /\ resp.status = 200
    /\ Len(resp.body.questions) = Len(before) - 10

\* C7: a search with the term absent or empty answers 400 with the uniform
\* JSON error body {success: false, error: 400, message: 'bad request'}.
C7_EmptySearchIsJsonBadRequest ==
    (/\ Served("POST", "/questions/search")
     /\ (req.json.searchTerm = None \/ req.json.searchTerm = Some(<<>>))) =>
        /\ IsJsonError(400)
        /\ resp.body.message = "bad request"

\* C8: GET /categories/c/questions answers 404 when no category has id c,
\* whatever questions carry category c; when a category has id c it succeeds,
\* every returned question has category c and current_category is that
\* category's type.
C8_QuestionsByCategory ==
    Served("GET", "/categories/<int:category_id>/questions") =>
        LET c == req.id
            rows == {db.categories[i] : i \in DOMAIN db.categories}
        IN IF \A r \in rows : r.id # c
           THEN /\ resp.status = 404
                /\ resp.body = ErrorBody(404, "Resource not found")
           ELSE /\ IsSuccess
                /\ \A i \in DOMAIN resp.body.questions :
                      resp.body.questions[i].category = c
                /\ \E r \in rows : r.id = c /\ resp.body.current_category = r.type

\* an existing category, questions of it returned, other categories stored
C8_Witness ==
    /\ Served("GET", "/categories/<int:category_id>/questions")
    /\ resp.status = 200
    /\ Len(resp.body.questions) > 0
    /\ \E i \in DOMAIN before : before[i].category # req.id

\* C9: a well-formed POST /quizzes succeeds; the returned question, if any,
\* is not among previous_questions and is of the selected category, and it is
\* null exactly when no stored question is eligible.
C9_QuizServesEligibleQuestion ==
    Served("POST", "/quizzes") =>
        LET prev == Range(req.json.previous_questions)
            c == req.json.quiz_category.id
            eligible == {i \in DOMAIN before :
                            /\ before[i].id \notin prev
                            /\ (c # 0 => before[i].category = c)}
        IN /\ IsSuccess
           /\ "question" \in DOMAIN resp.body
           /\ IF eligible = {} THEN resp.body.question = None
              ELSE \E i \in eligible : resp.body.question = Some(format(before[i]))

\* The fixed message of each error kind
KindMessage ==
    [c \in {400, 404, 405, 422} |->
        CASE c = 400 -> "bad request"
          [] c = 404 -> "Resource not found"
          [] c = 405 -> "method not allowed"
          [] c = 422 -> "unprocessable"]

\* C10, the outcome: every request ends in a full success or in exactly one
\* of the four error kinds with its fixed message.
C10_OneOutcome ==
    served > 0 =>
        \/ IsSuccess
        \/ \E c \in DOMAIN KindMessage :
              /\ resp.status = c
              /\ resp.body = ErrorBody(c, KindMessage[c])

\* C10, the store: no request ends in a partial success; whenever a request
\* is answered with an error, a failing store call included, the stored
\* questions are the same as before the request.
C10_NoPartialSuccess ==
    (served > 0 /\ ~IsSuccess) => db.questions = before

\* C8, the orphaned reference: stored questions carry a category id that no
\* category has, and the request for it is answered 404
C8_OrphanReached ==
    /\ Served("GET", "/categories/<int:category_id>/questions")
    /\ \A i \in DOMAIN db.categories : db.categories[i].id # req.id
    /\ \E i \in DOMAIN before : before[i].category = req.id
    /\ resp.status = 404

====
